---------------------------- MODULE Spec2Model ----------------------------
(***************************************************************************)
(* The Things model of the gateway (src/src/models/things.js): the cache   *)
(* of Thing objects in front of the database, the reconciliation against   *)
(* the things the adapters report, and the list of websockets that are     *)
(* told of new things.                                                     *)
(*                                                                         *)
(* Every asynchronous method is a promise chain.  A call is modelled by    *)
(* its synchronous part (the method body up to the database call), the     *)
(* database's own step, and the callbacks that run once the database has   *)
(* answered.  The callbacks of one chain run in one drain of the microtask *)
(* queue and are one step.  Calls of different callers interleave at these *)
(* steps.                                                                  *)
(***************************************************************************)
EXTENDS Integers, Sequences, FiniteSets, TLC

(***************************************************************************)
(* Bounds of the model.                                                    *)
(***************************************************************************)
\* The number of operations the environment starts in one behaviour.
MaxEvents == 3
\* The longest list of connected things the adapters report.
MaxConnected == 2

Ids == {"A", "B"}
Descs == {"d1", "d2"}
Callers == {"c1", "c2"}
CallerOrder == <<"c1", "c2">>
Sockets == {"S1", "S2"}
PropOrder == <<"p", "q">>

\* The value of a variable or a field that was never assigned.
Undefined == "undefined"

(***************************************************************************)
(* Constants (src/constants.js is not part of the sources; the values are  *)
(* the ones the specification gives as examples).                          *)
(***************************************************************************)
THINGS_PATH == "/things"
PROPERTIES_PATH == "/properties"

(***************************************************************************)
(* Thing (src/models/thing.js is not part of the sources): an object with  *)
(* an id and the description it was built from.                            *)
(***************************************************************************)
Thing(id, description) == [id |-> id, description |-> description]

getDescription(thing) == thing.description

(***************************************************************************)
(* A JavaScript Map, as the sequence of its entries in insertion order.    *)
(* The key of an entry is the id it was set under.                         *)
(***************************************************************************)
MapKeys(m) == {m[i].key : i \in 1..Len(m)}

MapHas(m, k) == \E i \in 1..Len(m) : m[i].key = k

MapGet(m, k) ==
  IF MapHas(m, k)
    THEN m[CHOOSE i \in 1..Len(m) : m[i].key = k].value
    ELSE Undefined

MapSet(m, k, v) ==
  IF MapHas(m, k)
    THEN [i \in 1..Len(m) |-> IF m[i].key = k THEN [key |-> k, value |-> v] ELSE m[i]]
    ELSE Append(m, [key |-> k, value |-> v])

MapDelete(m, k) == SelectSeq(m, LAMBDA e : e.key # k)

MapValues(m) == [i \in 1..Len(m) |-> m[i].value]

(***************************************************************************)
(* The database (src/db.js is not part of the sources).  It holds at most  *)
(* one description per id.  getThings lists its rows, createThing refuses  *)
(* an id it already holds, removeThing deletes a row.  Any call may fail   *)
(* because the database is unavailable.                                    *)
(***************************************************************************)
NoRow == "norow"

DbIds(d) == {i \in Ids : d[i] # NoRow}

IdOrder == <<"A", "B">>

DatabaseGetThings(d) ==
  LET rows == [k \in 1..Len(IdOrder) |->
                 [id |-> IdOrder[k], description |-> d[IdOrder[k]]]]
  IN SelectSeq(rows, LAMBDA r : r.description # NoRow)

DatabaseCreateThing(d, id, description) == [d EXCEPT ![id] = description]

DatabaseRemoveThing(d, id) == [d EXCEPT ![id] = NoRow]

(***************************************************************************)
(* The devices the adapters report (src/addon-manager.js is not part of    *)
(* the sources): an id, an href, and properties that each have an href.    *)
(***************************************************************************)
Device(id, props) ==
  [id |-> id, href |-> Undefined, properties |-> [p \in props |-> [href |-> Undefined]]]

\* One device without properties and one with two.
Devices == {Device("A", {}), Device("B", {"p", "q"})}

RECURSIVE SeqsUpTo(_, _)
SeqsUpTo(S, n) ==
  IF n = 0 THEN {<<>>}
  ELSE LET shorter == SeqsUpTo(S, n - 1)
       IN shorter \cup {Append(s, x) : s \in {t \in shorter : Len(t) = n - 1}, x \in S}

ConnectedLists == SeqsUpTo(Devices, MaxConnected)

VARIABLES
  db,          \* the database: id -> description, or NoRow
  things,      \* Things.things
  websockets,  \* Things.websockets
  calls,       \* per caller, the asynchronous call it has in flight
  ret,         \* how the step just taken settled a call (NoRet: it settled none)
  socket,      \* per websocket: "new", "open" (registered), "closed"
  sent,        \* the handleNewThing of the step just taken: the thing, the data
               \* sent, the websockets it reached in order, whether send threw,
               \* the websockets whose send fails
  nEvents,     \* operations started so far
  life,        \* per id, the last createThing or removeThing that resolved
  cleared      \* whether clearState has run

\* Every step changes one of the first three.
vars == <<nEvents, calls, socket, db, things, websockets, life, cleared, sent, ret>>

hubVars == <<websockets, socket>>

ReadOps == {"getThings", "getThingDescriptions", "getNewThings", "getThing",
            "getThingDescription"}

Idle == [op |-> "none", id |-> "-", description |-> "-", pc |-> "idle", rows |-> <<>>]

NoSend == [newThing |-> <<>>, data |-> "", to |-> <<>>, threw |-> FALSE,
           failing |-> {}]

NoRet == [op |-> "none", id |-> "-", description |-> "-", ok |-> TRUE,
          value |-> Undefined, error |-> "", given |-> <<>>, connected |-> <<>>,
          released |-> <<>>]

NoWrite == [op |-> "none", description |-> "-"]

Init ==
  /\ db \in [Ids -> {"d1", NoRow}]
  /\ things = <<>>
  /\ websockets = <<>>
  /\ calls = [c \in Callers |-> Idle]
  /\ ret = NoRet
  /\ socket = [s \in Sockets |-> "new"]
  /\ sent = NoSend
  /\ nEvents = 0
  /\ life = [i \in Ids |-> NoWrite]
  /\ cleared = FALSE


(***************************************************************************)
(* How a promise settles: resolved with a value, or rejected with an       *)
(* error.  given is the list of devices AddonManager.getThings returned to *)
(* the call, connected is that list as the call left it (getNewThings      *)
(* writes into the devices it is given), released the things whose         *)
(* remove() the call ran.                                                  *)
(***************************************************************************)
Resolved(value) ==
  [ok |-> TRUE, value |-> value, error |-> "", given |-> <<>>, connected |-> <<>>,
   released |-> <<>>]

Rejected(error) ==
  [ok |-> FALSE, value |-> Undefined, error |-> error, given |-> <<>>,
   connected |-> <<>>, released |-> <<>>]

Settled(call, outcome) ==
  [op |-> call.op, id |-> call.id, description |-> call.description,
   ok |-> outcome.ok, value |-> outcome.value, error |-> outcome.error,
   given |-> outcome.given, connected |-> outcome.connected,
   released |-> outcome.released]

NotFoundError(id) == "Unable to find thing with id: " \o id

(***************************************************************************)
(* getThings, lines 36-48.                                                 *)
(***************************************************************************)
\* Line 37: the cache is served when it holds at least one thing.
CacheHit == Len(things) > 0

\* A load that leaves out the last row listed.
LoadThingsAllButLast(rows, map) ==
  [i \in 1..(Len(rows) - 1) |->
     [key |-> rows[i].id, value |-> Thing(rows[i].id, rows[i].description)]]

\* Lines 42-45: the callback builds a new Map out of the rows listed.
RECURSIVE LoadThings(_, _)
LoadThings(rows, map) ==
  IF rows = <<>> THEN map
  ELSE LET thing == Head(rows)
       IN LoadThings(Tail(rows),
                     MapSet(map, thing.id, Thing(thing.id, thing.description)))

(***************************************************************************)
(* The callbacks the other read methods chain on getThings.                *)
(***************************************************************************)
\* Lines 56-62.
getThingDescriptionsThen(map) ==
  Resolved([i \in 1..Len(map) |-> getDescription(map[i].value)])

\* A lookup that resolves with undefined for an id the map does not hold.
getThingThenUndefined(map, id) == Resolved(MapGet(map, id))

\* Lines 143-149.
getThingThen(map, id) ==
  IF MapHas(map, id) THEN Resolved(MapGet(map, id)) ELSE Rejected(NotFoundError(id))

\* Lines 159-161.
getThingDescriptionThen(map, id) ==
  LET got == getThingThen(map, id)
  IN IF got.ok THEN Resolved(getDescription(got.value)) ELSE got

\* Lines 79-80.
ThingHref(id) == THINGS_PATH \o "/" \o id

\* Lines 84-86.
PropertyHref(id, propertyName) ==
  THINGS_PATH \o "/" \o id \o PROPERTIES_PATH \o "/" \o propertyName

\* Lines 79-88: the device with its href and the href of each property set.
Addressed(connectedThing) ==
  [connectedThing EXCEPT
     !.href = ThingHref(connectedThing.id),
     !.properties = [propertyName \in DOMAIN connectedThing.properties |->
                       [connectedThing.properties[propertyName] EXCEPT
                          !.href = PropertyHref(connectedThing.id, propertyName)]]]

\* A reconciliation that takes every connected thing for a new one.
IsNewThingAlways(storedThings, connectedThing) == TRUE

\* Line 78.
IsNewThing(storedThings, connectedThing) == ~MapHas(storedThings, connectedThing.id)

\* Lines 77-91: the forEach over the connected things, from index k on.
RECURSIVE NewThingsLoop(_, _, _, _)
NewThingsLoop(storedThings, connectedThings, k, newThings) ==
  IF k > Len(connectedThings)
    THEN [newThings |-> newThings, connectedThings |-> connectedThings]
  ELSE IF IsNewThing(storedThings, connectedThings[k])
    THEN LET connectedThing == Addressed(connectedThings[k])
         IN NewThingsLoop(storedThings,
                          [connectedThings EXCEPT ![k] = connectedThing],
                          k + 1, Append(newThings, connectedThing))
  ELSE NewThingsLoop(storedThings, connectedThings, k + 1, newThings)

\* Lines 73-93.
getNewThingsThen(storedThings, connectedThings) ==
  LET r == NewThingsLoop(storedThings, connectedThings, 1, <<>>)
  IN [Resolved(r.newThings) EXCEPT !.given = connectedThings,
                                   !.connected = r.connectedThings]

\* What a read method resolves with once getThings has resolved with map.
ReadThen(op, id, map, connectedThings) ==
  CASE op = "getThings" -> Resolved(map)
    [] op = "getThingDescriptions" -> getThingDescriptionsThen(map)
    [] op = "getNewThings" -> getNewThingsThen(map, connectedThings)
    [] op = "getThing" -> getThingThen(map, id)
    [] op = "getThingDescription" -> getThingDescriptionThen(map, id)

\* The arguments a read method is called with, and what AddonManager.getThings
\* returns to it: only getThing and getThingDescription take an id, only
\* getNewThings asks the adapters.
IdArgs(op) == IF op \in {"getThing", "getThingDescription"} THEN Ids ELSE {"-"}

ConnectedArgs(op) == IF op = "getNewThings" THEN ConnectedLists ELSE {<<>>}

\* A call in flight is kept under the first name that is free.
FirstFree(c) ==
  /\ calls[c].pc = "idle"
  /\ \A k \in 1..Len(CallerOrder) :
       CallerOrder[k] = c => \A j \in 1..(k - 1) : calls[CallerOrder[j]].pc # "idle"

CanStart(c) == FirstFree(c) /\ nEvents < MaxEvents

(***************************************************************************)
(* A read method on a cache that holds things: getThings returns           *)
(* Promise.resolve(this.things) (line 38) and the method's callback runs   *)
(* on that map.                                                            *)
(***************************************************************************)
ReadCached(c, op, id, connectedThings) ==
  /\ CanStart(c)
  /\ CacheHit
  /\ ret' = Settled([Idle EXCEPT !.op = op, !.id = id],
                    ReadThen(op, id, things, connectedThings))
  /\ nEvents' = nEvents + 1
  /\ sent' = NoSend
  /\ UNCHANGED <<db, things, calls, cleared, hubVars, life>>

(***************************************************************************)
(* A read method on an empty cache: getThings calls Database.getThings     *)
(* (line 40).                                                              *)
(***************************************************************************)
ReadQuery(c, op, id) ==
  /\ CanStart(c)
  /\ ~CacheHit
  /\ calls' = [calls EXCEPT ![c] = [Idle EXCEPT !.op = op, !.id = id, !.pc = "db"]]
  /\ nEvents' = nEvents + 1
  /\ ret' = NoRet
  /\ sent' = NoSend
  /\ UNCHANGED <<db, things, cleared, hubVars, life>>

\* The database answers the query with its rows.
DbGetThings(c) ==
  /\ calls[c].pc = "db"
  /\ calls[c].op \in ReadOps
  /\ calls' = [calls EXCEPT ![c].pc = "then", ![c].rows = DatabaseGetThings(db)]
  /\ ret' = NoRet
  /\ sent' = NoSend
  /\ UNCHANGED <<db, things, nEvents, cleared, hubVars, life>>

\* The query fails: the rejection reaches the caller, no callback runs.
DbGetThingsFails(c) ==
  /\ calls[c].pc = "db"
  /\ calls[c].op \in ReadOps
  /\ ret' = Settled(calls[c], Rejected("StoreUnavailable"))
  /\ calls' = [calls EXCEPT ![c] = Idle]
  /\ sent' = NoSend
  /\ UNCHANGED <<db, things, nEvents, cleared, hubVars, life>>

\* Lines 41-46, then the method's own callback on the map returned.
ReadLoaded(c, connectedThings) ==
  /\ calls[c].pc = "then"
  /\ calls[c].op \in ReadOps
  /\ things' = LoadThings(calls[c].rows, <<>>)
  /\ ret' = Settled(calls[c], ReadThen(calls[c].op, calls[c].id, things', connectedThings))
  /\ calls' = [calls EXCEPT ![c] = Idle]
  /\ sent' = NoSend
  /\ UNCHANGED <<db, nEvents, cleared, hubVars, life>>

(***************************************************************************)
(* createThing, lines 102-109.                                             *)
(***************************************************************************)
\* A createThing that puts the thing in the cache before the database answers.
CreateCallOptimistic(c, id, description) ==
  /\ calls' = [calls EXCEPT ![c] = [Idle EXCEPT !.op = "createThing", !.id = id,
                                                !.description = description, !.pc = "db"]]
  /\ things' = MapSet(things, id, Thing(id, description))

\* Lines 103-104: the Thing is built and the database is asked to store it.
\* The cache is not touched before the database has answered.
CreateCall(c, id, description) ==
  /\ calls' = [calls EXCEPT ![c] = [Idle EXCEPT !.op = "createThing", !.id = id,
                                                !.description = description, !.pc = "db"]]
  /\ UNCHANGED things

createThing(c, id, description) ==
  /\ CanStart(c)
  /\ id \in Ids
  /\ description \in Descs
  /\ CreateCall(c, id, description)
  /\ nEvents' = nEvents + 1
  /\ ret' = NoRet
  /\ sent' = NoSend
  /\ UNCHANGED <<db, cleared, hubVars, life>>

\* The database stores the row and resolves with the description stored.
DbCreateThing(c) ==
  /\ calls[c].pc = "db"
  /\ calls[c].op = "createThing"
  /\ calls[c].id \notin DbIds(db)
  /\ db' = DatabaseCreateThing(db, calls[c].id,
                               getDescription(Thing(calls[c].id, calls[c].description)))
  /\ calls' = [calls EXCEPT ![c].pc = "then", ![c].rows = <<db'[calls[c].id]>>]
  /\ ret' = NoRet
  /\ sent' = NoSend
  /\ UNCHANGED <<things, nEvents, cleared, hubVars, life>>

\* The database refuses the row (the id is taken), or is unavailable: the
\* callback of line 105 does not run, the rejection passes on to the caller.
DbCreateThingFails(c, error) ==
  /\ calls[c].pc = "db"
  /\ calls[c].op = "createThing"
  /\ error \in (IF calls[c].id \in DbIds(db) THEN {"Conflict"} ELSE {})
                 \cup {"StoreUnavailable"}
  /\ ret' = Settled(calls[c], Rejected(error))
  /\ calls' = [calls EXCEPT ![c] = Idle]
  /\ sent' = NoSend
  /\ UNCHANGED <<db, things, nEvents, cleared, hubVars, life>>

\* A callback that resolves without the insertion of line 106.
CreateInsertSkipped(map, id, description) == map

\* An insertion under a key that is not the thing's id.
CreateInsertUnderDescription(map, id, description) ==
  MapSet(map, description, Thing(id, description))

\* Line 106.
CreateInsert(map, id, description) == MapSet(map, id, Thing(id, description))

\* Lines 105-108.
CreateThen(c) ==
  /\ calls[c].pc = "then"
  /\ calls[c].op = "createThing"
  /\ things' = CreateInsert(things, calls[c].id, calls[c].description)
  /\ ret' = Settled(calls[c], Resolved(calls[c].rows[1]))
  /\ life' = [life EXCEPT ![calls[c].id] =
                 [op |-> "createThing", description |-> calls[c].description]]
  /\ calls' = [calls EXCEPT ![c] = Idle]
  /\ sent' = NoSend
  /\ UNCHANGED <<db, nEvents, cleared, hubVars>>

(***************************************************************************)
(* removeThing, lines 169-178.                                             *)
(***************************************************************************)
\* A removeThing that deletes the cache entry before it asks the database.
removeThingCacheFirst(c, id) ==
  /\ CanStart(c)
  /\ id \in Ids
  /\ calls' = [calls EXCEPT ![c] = [Idle EXCEPT !.op = "removeThing", !.id = id,
                                                !.pc = "db"]]
  /\ things' = MapDelete(things, id)
  /\ nEvents' = nEvents + 1
  /\ ret' = NoRet
  /\ sent' = NoSend
  /\ UNCHANGED <<db, cleared, hubVars, life>>

\* Line 170: the database is asked first.
removeThing(c, id) ==
  /\ CanStart(c)
  /\ id \in Ids
  /\ calls' = [calls EXCEPT ![c] = [Idle EXCEPT !.op = "removeThing", !.id = id,
                                                !.pc = "db"]]
  /\ nEvents' = nEvents + 1
  /\ ret' = NoRet
  /\ sent' = NoSend
  /\ UNCHANGED <<db, things, cleared, hubVars, life>>

\* The database deletes the row; deleting a row it does not hold may succeed.
DbRemoveThing(c) ==
  /\ calls[c].pc = "db"
  /\ calls[c].op = "removeThing"
  /\ db' = DatabaseRemoveThing(db, calls[c].id)
  /\ calls' = [calls EXCEPT ![c].pc = "then"]
  /\ ret' = NoRet
  /\ sent' = NoSend
  /\ UNCHANGED <<things, nEvents, cleared, hubVars, life>>

\* The database does not hold the row and says so, or is unavailable.
DbRemoveThingFails(c, error) ==
  /\ calls[c].pc = "db"
  /\ calls[c].op = "removeThing"
  /\ error \in (IF calls[c].id \in DbIds(db) THEN {} ELSE {"NotFound"})
                 \cup {"StoreUnavailable"}
  /\ ret' = Settled(calls[c], Rejected(error))
  /\ calls' = [calls EXCEPT ![c] = Idle]
  /\ sent' = NoSend
  /\ UNCHANGED <<db, things, nEvents, cleared, hubVars, life>>

\* A callback that goes on to release whatever the cache returned.
RemoveIsCachedAlways(map, id) == TRUE

\* Lines 171-174: a thing that is not in the cache is not released.
RemoveIsCached(map, id) == MapHas(map, id)

\* A callback that releases the thing and leaves it in the cache.
RemoveDeleteSkipped(map, id) == map

\* Line 176.
RemoveDelete(map, id) == MapDelete(map, id)

\* Lines 171-176.  released lists the things whose remove() ran.
RemoveThen(c) ==
  /\ calls[c].pc = "then"
  /\ calls[c].op = "removeThing"
  /\ IF RemoveIsCached(things, calls[c].id)
       THEN /\ ret' = Settled(calls[c],
                      [Resolved(Undefined) EXCEPT
                         !.released = <<MapGet(things, calls[c].id)>>])
            /\ things' = RemoveDelete(things, calls[c].id)
       ELSE /\ ret' = Settled(calls[c], Resolved(Undefined))
            /\ UNCHANGED things
  /\ life' = [life EXCEPT ![calls[c].id] =
                 IF @.op = "none" THEN @ ELSE [@ EXCEPT !.op = "removeThing"]]
  /\ calls' = [calls EXCEPT ![c] = Idle]
  /\ sent' = NoSend
  /\ UNCHANGED <<db, nEvents, cleared, hubVars>>

(***************************************************************************)
(* clearState, lines 180-183.  Calls in flight stay in flight.             *)
(***************************************************************************)
\* A clearState that empties the websockets and leaves the cache as it is.
clearStateKeepsThings ==
  /\ nEvents < MaxEvents
  /\ websockets' = <<>>
  /\ cleared' = TRUE
  /\ ret' = Settled([Idle EXCEPT !.op = "clearState"], Resolved(Undefined))
  /\ nEvents' = nEvents + 1
  /\ sent' = NoSend
  /\ UNCHANGED <<db, things, calls, socket, life>>

clearState ==
  /\ nEvents < MaxEvents
  /\ websockets' = <<>>
  /\ things' = <<>>
  /\ cleared' = TRUE
  /\ ret' = Settled([Idle EXCEPT !.op = "clearState"], Resolved(Undefined))
  /\ nEvents' = nEvents + 1
  /\ sent' = NoSend
  /\ UNCHANGED <<db, calls, socket, life>>

(***************************************************************************)
(* The websockets, lines 116-134 and 186-188.                              *)
(***************************************************************************)
\* Array.prototype.indexOf: the first index (from 0) of s, or -1.
IndexOf(array, s) ==
  IF \E i \in 1..Len(array) : array[i] = s
    THEN (CHOOSE i \in 1..Len(array) :
            array[i] = s /\ \A j \in 1..(i - 1) : array[j] # s) - 1
    ELSE -1

\* Array.prototype.splice(start, 1): a negative start counts from the end.
Splice1(array, start) ==
  LET from == IF start < 0
                THEN (IF Len(array) + start < 0 THEN 0 ELSE Len(array) + start)
                ELSE (IF start > Len(array) THEN Len(array) ELSE start)
  IN [i \in 1..(IF from < Len(array) THEN Len(array) - 1 ELSE Len(array)) |->
        IF i <= from THEN array[i] ELSE array[i + 1]]

\* A listener that leaves the list as it is.
CloseListenerKeeps(array, websocket) == array

\* Lines 130-133: the listener registerWebsocket puts on 'close'.
CloseListener(array, websocket) ==
  LET index == IndexOf(array, websocket)
  IN Splice1(array, index)

\* Lines 128-134.  A websocket is a connection of its own: it is registered
\* once, when it is opened.
registerWebsocket(websocket) ==
  /\ nEvents < MaxEvents
  /\ socket[websocket] = "new"
  /\ websockets' = Append(websockets, websocket)
  /\ socket' = [socket EXCEPT ![websocket] = "open"]
  /\ nEvents' = nEvents + 1
  /\ ret' = NoRet
  /\ sent' = NoSend
  /\ UNCHANGED <<db, things, calls, cleared, life>>

\* The connection of a registered websocket closes (it does so once) and its
\* 'close' listener runs.
Close(websocket) ==
  /\ socket[websocket] = "open"
  /\ socket' = [socket EXCEPT ![websocket] = "closed"]
  /\ websockets' = CloseListener(websockets, websocket)
  /\ ret' = NoRet
  /\ sent' = NoSend
  /\ UNCHANGED <<db, things, calls, nEvents, cleared, life>>

\* JSON.stringify of a device: fields that are undefined are left out.
Quote(str) == "\"" \o str \o "\""

RECURSIVE Join(_)
Join(strs) ==
  IF strs = <<>> THEN ""
  ELSE IF Len(strs) = 1 THEN strs[1]
  ELSE strs[1] \o "," \o Join(Tail(strs))

StringifyProperty(property) ==
  IF property.href = Undefined THEN "{}"
  ELSE "{" \o Quote("href") \o ":" \o Quote(property.href) \o "}"

Stringify(thing) ==
  LET names == SelectSeq(PropOrder, LAMBDA n : n \in DOMAIN thing.properties)
      props == [i \in 1..Len(names) |->
                  Quote(names[i]) \o ":" \o StringifyProperty(thing.properties[names[i]])]
      fields == <<Quote("id") \o ":" \o Quote(thing.id)>>
                \o (IF names = <<>> THEN <<>>
                    ELSE <<Quote("properties") \o ":{" \o Join(props) \o "}">>)
                \o (IF thing.href = Undefined THEN <<>>
                    ELSE <<Quote("href") \o ":" \o Quote(thing.href)>>)
  IN "{" \o Join(fields) \o "}"

\* Lines 118-120: Array.prototype.forEach visits the indices below the length
\* the array had when it started, reading the array as it is at each visit,
\* and stops when the callback throws.  send throws for the websockets in
\* failing; the websockets in closing close while they are sent to, so their
\* 'close' listener runs inside the loop.
RECURSIVE SendLoop(_, _, _, _, _, _)
SendLoop(array, k, len, failing, closing, done) ==
  IF k > len THEN [websockets |-> array, to |-> done.to, threw |-> FALSE,
                   closed |-> done.closed]
  ELSE IF k > Len(array) THEN SendLoop(array, k + 1, len, failing, closing, done)
  ELSE IF array[k] \in failing
    THEN [websockets |-> array, to |-> done.to, threw |-> TRUE, closed |-> done.closed]
  ELSE IF array[k] \in closing
    THEN SendLoop(CloseListener(array, array[k]), k + 1, len, failing, closing,
                  [to |-> Append(done.to, array[k]),
                   closed |-> done.closed \cup {array[k]}])
  ELSE SendLoop(array, k + 1, len, failing, closing,
                [to |-> Append(done.to, array[k]), closed |-> done.closed])

\* Lines 116-121.
handleNewThing(newThing, failing, closing) ==
  LET r == SendLoop(websockets, 1, Len(websockets), failing, closing,
                    [to |-> <<>>, closed |-> {}])
  IN /\ sent' = [newThing |-> <<newThing>>, data |-> Stringify(newThing),
                 to |-> r.to, threw |-> r.threw, failing |-> failing]
     /\ websockets' = r.websockets
     /\ socket' = [s \in Sockets |-> IF s \in r.closed THEN "closed" ELSE socket[s]]

\* Lines 186-188: the listener on the AddonManager's THING_ADDED event.
ThingAdded(thing, failing, closing) ==
  /\ nEvents < MaxEvents
  /\ thing \in Devices
  /\ failing \in SUBSET {s \in Sockets : socket[s] = "open"}
  /\ closing \in SUBSET ({s \in Sockets : socket[s] = "open"} \ failing)
  /\ handleNewThing(thing, failing, closing)
  /\ nEvents' = nEvents + 1
  /\ ret' = NoRet
  /\ UNCHANGED <<db, things, calls, cleared, life>>

(***************************************************************************)
(* The specifications.                                                     *)
(***************************************************************************)
\* A caller starts a call.
Start ==
  \/ \E c \in Callers, op \in ReadOps :
       \E id \in IdArgs(op), cs \in ConnectedArgs(op) : ReadCached(c, op, id, cs)
  \/ \E c \in Callers, op \in ReadOps : \E id \in IdArgs(op) : ReadQuery(c, op, id)
  \/ \E c \in Callers, id \in Ids, d \in Descs : createThing(c, id, d)
  \/ \E c \in Callers, id \in Ids : removeThing(c, id)
  \/ clearState

\* The database answers, a callback runs.
Progress ==
  \/ \E c \in Callers : DbGetThings(c)
  \/ \E c \in Callers : DbGetThingsFails(c)
  \/ \E c \in Callers : \E cs \in ConnectedArgs(calls[c].op) : ReadLoaded(c, cs)
  \/ \E c \in Callers : DbCreateThing(c)
  \/ \E c \in Callers, e \in {"Conflict", "StoreUnavailable"} : DbCreateThingFails(c, e)
  \/ \E c \in Callers : CreateThen(c)
  \/ \E c \in Callers : DbRemoveThing(c)
  \/ \E c \in Callers, e \in {"NotFound", "StoreUnavailable"} : DbRemoveThingFails(c, e)
  \/ \E c \in Callers : RemoveThen(c)

\* The websockets and the adapters.
Hub ==
  \/ \E s \in Sockets : registerWebsocket(s)
  \/ \E s \in Sockets : Close(s)
  \/ \E t \in Devices, failing \in SUBSET Sockets :
       \E closing \in SUBSET (Sockets \ failing) : ThingAdded(t, failing, closing)

Next == Start \/ Progress \/ Hub

Spec == Init /\ [][Next]_vars

\* One caller at a time: a call is started when no call is in flight.
NoCallInFlight == \A c \in Callers : calls[c].pc = "idle"

NextSeq == (NoCallInFlight /\ Start) \/ Progress \/ Hub

SpecSeq == Init /\ [][NextSeq]_vars

(***************************************************************************)
(* The properties.                                                         *)
(***************************************************************************)
Count(seq, x) == Cardinality({i \in 1..Len(seq) : seq[i] = x})

\* The step starts a call of op by caller c that has to ask the database.
Asks(c, op) == calls[c].pc = "idle" /\ calls'[c].pc = "db" /\ calls'[c].op = op

\* The step starts an operation (and, when it also settles it, the operation
\* was answered from the cache).
StartsOperation == nEvents' = nEvents + 1

\* The step runs the callback of caller c's call of op.
RunsThen(c, op) == calls[c].op = op /\ calls[c].pc = "then" /\ calls'[c].pc = "idle"

\* The calls whose Database.getThings query has been issued and whose
\* callback has not run yet.
LoadsInFlight == {c \in Callers : calls[c].op \in ReadOps /\ calls[c].pc \in {"db", "then"}}

\* The createThing and removeThing calls in flight.
WritesInFlight ==
  {c \in Callers : calls[c].op \in {"createThing", "removeThing"} /\ calls[c].pc # "idle"}

\* C1: single-flight cold load.  However many getThings calls are started on
\* an empty cache before one of them has resolved, one store list query is
\* issued: at no time are two Database.getThings queries in flight.
C1_SingleFlight == Cardinality(LoadsInFlight) <= 1

\* C2: idempotent cold load.  With one caller at a time, a getThings call
\* started right after a getThings call has resolved (no create, remove or
\* clear in between) issues no store list query: of N calls in a row only the
\* first one queries the store, whatever the store holds.
C2_IdempotentColdLoad ==
  [][(ret.op = "getThings" /\ ret.ok) => \A c \in Callers : ~Asks(c, "getThings")]_vars

\* C3: cache-store mirror.  Whenever getThings would answer from the cache
\* and no createThing or removeThing is in flight, the ids in the cache are
\* the ids in the store.
C3_CacheMirrorsStore ==
  (CacheHit /\ WritesInFlight = {}) => MapKeys(things) = DbIds(db)

\* C4: round trip.  When createThing(id, d) has resolved and getThing(id) is
\* the next operation, it resolves (at once, from the cache) with a Thing
\* whose id is id and whose description is d, whether the cache was empty or
\* not when createThing was called.
C4_RoundTrip ==
  [][(ret.op = "createThing" /\ ret.ok)
       => /\ \A c \in Callers : Asks(c, "getThing") => calls'[c].id # ret.id
          /\ (StartsOperation /\ ret'.op = "getThing" /\ ret'.id = ret.id)
               => /\ ret'.ok
                  /\ ret'.value = [id |-> ret.id, description |-> ret.description]]_vars

\* C4 happens: getThing(id) has just resolved with the thing that a
\* createThing(id, d2) put there.
C4_Witness ==
  /\ ret.op = "getThing"
  /\ ret.ok
  /\ life[ret.id] = [op |-> "createThing", description |-> "d2"]
  /\ ret.value.description = "d2"

C6_FailedCreate ==
  [][\A c \in Callers :
       /\ Asks(c, "createThing") => things' = things
       /\ (calls[c].op = "createThing" /\ calls[c].pc = "db" /\ calls'[c].pc = "idle")
            => /\ things' = things
               /\ ret'.op = "createThing" /\ ret'.id = calls[c].id
               /\ ~ret'.ok
               /\ ret'.error \in {"Conflict", "StoreUnavailable"}]_vars

\* C6 happens: the store has refused a createThing for an id it holds, and
\* the cache does not hold that id.
C6_Witness ==
  /\ ret.op = "createThing"
  /\ ~ret.ok
  /\ ret.error = "Conflict"
  /\ ret.id \notin MapKeys(things)

\* C7: reconciliation.  getNewThings resolves with the connected devices
\* whose id is not a key of the map getThings returned, in the order of the
\* connected list, each with href THINGS_PATH/id and each of its properties p
\* with href THINGS_PATH/id PROPERTIES_PATH/p; the devices whose id is stored
\* are left as they were given.
C7_Reconciliation ==
  (ret.op = "getNewThings" /\ ret.ok) =>
    LET stored == MapKeys(things)
        new == SelectSeq(ret.given, LAMBDA d : d.id \notin stored)
    IN /\ Len(ret.value) = Len(new)
       /\ \A j \in 1..Len(new) :
            /\ ret.value[j].id = new[j].id
            /\ ret.value[j].href = THINGS_PATH \o "/" \o new[j].id
            /\ DOMAIN ret.value[j].properties = DOMAIN new[j].properties
            /\ \A p \in DOMAIN new[j].properties :
                 ret.value[j].properties[p].href =
                   THINGS_PATH \o "/" \o new[j].id \o PROPERTIES_PATH \o "/" \o p
       /\ Len(ret.connected) = Len(ret.given)
       /\ \A k \in 1..Len(ret.given) :
            ret.given[k].id \in stored => ret.connected[k] = ret.given[k]

\* C7 happens: A is stored, A and B are connected, B has properties, and
\* getNewThings has resolved with B alone, addressed.
C7_Witness ==
  /\ ret.op = "getNewThings"
  /\ ret.ok
  /\ MapKeys(things) = {"A"}
  /\ Len(ret.given) = 2 /\ ret.given[1].id = "A" /\ ret.given[2].id = "B"
  /\ Len(ret.value) = 1
  /\ ret.value[1].href = "/things/B"
  /\ ret.value[1].properties["p"].href = "/things/B/properties/p"
  /\ ret.connected[1].href = Undefined

\* The step is one of a getNewThings call: it starts it, answers its store
\* query, or settles it.
GetNewThingsStep ==
  \/ ret'.op = "getNewThings"
  \/ \E c \in Callers :
       /\ calls'[c].pc # calls[c].pc
       /\ "getNewThings" \in {calls[c].op, calls'[c].op}

\* C8 as claimed: no step of a getNewThings call writes to the store or
\* changes the set of ids in the cache, whether the cache held things or not
\* when it was called.
C8_CacheUntouched ==
  [][GetNewThingsStep => (db' = db /\ MapKeys(things') = MapKeys(things))]_vars

\* C8, amended: no step of a getNewThings call writes to the store; the only
\* step that changes the cache is the callback of the store query that
\* getThings issued because the cache was empty, and it makes the cache the
\* list of things the store answered with.
C8_ReadOnly ==
  [][GetNewThingsStep =>
       /\ db' = db
       /\ IF \E c \in Callers : RunsThen(c, "getNewThings")
            THEN \E c \in Callers :
                   /\ RunsThen(c, "getNewThings")
                   /\ Len(things') = Len(calls[c].rows)
                   /\ \A i \in 1..Len(things') :
                        /\ things'[i].key = calls[c].rows[i].id
                        /\ things'[i].value = calls[c].rows[i]
            ELSE things' = things]_vars

\* C8 happens: getNewThings was the first operation, on an empty cache, and
\* has resolved; the cache now holds what the store listed.
C8_Witness ==
  /\ ret.op = "getNewThings"
  /\ ret.ok
  /\ nEvents = 1
  /\ things # <<>>

\* C9: broadcast fan-out.  After registrations and closes only (clearState
\* has not run), a THING_ADDED event during which no send throws and no
\* websocket closes sends the serialized thing once to every websocket that
\* was registered and has not closed, and to no other.
C9_FanOut ==
  [][(sent'.newThing # <<>> /\ ~cleared /\ ~sent'.threw /\ socket' = socket)
       => /\ sent'.data = Stringify(sent'.newThing[1])
          /\ \A s \in Sockets :
               Count(sent'.to, s) = IF socket[s] = "open" THEN 1 ELSE 0]_vars

\* C9 happens: S1 and S2 were registered, S1 has closed, and the thing A has
\* been sent to S2 alone.
C9_Witness ==
  /\ ~cleared
  /\ socket = [s \in Sockets |-> IF s = "S1" THEN "closed" ELSE "open"]
  /\ sent.to = <<"S2">>
  /\ sent.data = "{\"id\":\"A\"}"

\* C10: identity removal on close.  When the connection of websocket s
\* closes, its listener removes no websocket other than s from the list.
C10_IdentityRemoval ==
  [][\A s \in Sockets :
       (~StartsOperation /\ socket[s] = "open" /\ socket'[s] = "closed")
         => \A t \in Sockets \ {s} : Count(websockets', t) = Count(websockets, t)]_vars

\* C11: delivery-failure isolation.  When send fails for some of the
\* registered websockets during handleNewThing (clearState has not run, no
\* websocket closes meanwhile), every other registered websocket is sent the
\* thing once, the failure does not leave handleNewThing, and the list of
\* websockets is as it was.
C11_FailureIsolated ==
  [][(sent'.newThing # <<>> /\ sent'.failing # {} /\ ~cleared /\ socket' = socket)
       => /\ ~sent'.threw
          /\ websockets' = websockets
          /\ \A s \in Sockets \ sent'.failing :
               Count(sent'.to, s) = IF socket[s] = "open" THEN 1 ELSE 0]_vars

\* The map m holds exactly the rows of the database d, each as a Thing
\* under its id.
MirrorsStore(m, d) ==
  /\ Len(m) = Cardinality(DbIds(d))
  /\ MapKeys(m) = DbIds(d)
  /\ \A i \in 1..Len(m) : m[i].value = Thing(m[i].key, d[m[i].key])

\* C12: clearState resets the cache to empty.  clearState issues no store
\* call and leaves the database as it is; a getThings called next is not
\* answered from the cache, it queries the database; and a getThings called
\* after clearState, each call being awaited before the next, resolves with
\* exactly the things the database then holds.
C12_ClearResets ==
  [][/\ ret'.op = "clearState" => (db' = db /\ calls' = calls /\ things' = <<>>)
     /\ ret.op = "clearState" => ret'.op # "getThings"
     /\ \A c \in Callers :
          (cleared /\ RunsThen(c, "getThings"))
            => (ret'.ok /\ MirrorsStore(ret'.value, db))]_vars

\* C12 happens: B was created (the cache held it), clearState ran, and the
\* getThings called next has resolved with A and B, read from the database.
C12_Witness ==
  /\ cleared
  /\ nEvents = 3
  /\ ret.op = "getThings"
  /\ ret.ok
  /\ MapKeys(ret.value) = {"A", "B"}
  /\ life["B"].op = "createThing"

\* C13: subscriber lifecycle.  A websocket that was registered and whose
\* connection has not closed is in the list of websockets, once; a websocket
\* that was not registered, or whose connection has closed, is not in it.
\* No operation other than its own close takes a websocket out of the list.
C13_Lifecycle ==
  \A s \in Sockets : Count(websockets, s) = IF socket[s] = "open" THEN 1 ELSE 0

\* The step settles a getThing or a getThingDescription.
LookupSettles == ret'.op \in {"getThing", "getThingDescription"}

\* How the lookup settled in this step settles: rejected with the store's
\* error when the query of the cold path failed; otherwise resolved with the
\* entry of id (its description, for getThingDescription) exactly when id is
\* a key of the map getThings returned, and rejected with the not-found
\* error when it is not.
LookupOutcome ==
  IF ret'.error = "StoreUnavailable"
    THEN /\ ~ret'.ok
         /\ \E c \in Callers :
              calls[c].op = ret'.op /\ calls[c].pc = "db" /\ calls'[c].pc = "idle"
    ELSE /\ ret'.ok <=> ret'.id \in MapKeys(things')
         /\ ~ret'.ok => ret'.error = NotFoundError(ret'.id)
         /\ ret'.ok =>
              ret'.value = IF ret'.op = "getThing"
                             THEN MapGet(things', ret'.id)
                             ELSE MapGet(things', ret'.id).description

\* C14 as claimed: lookups settle as LookupOutcome says, and a lookup that
\* fails leaves the entries of the cache as they were.
C14_FailedLookupKeepsCache ==
  [][LookupSettles => (LookupOutcome /\ (~ret'.ok => things' = things))]_vars

\* C14, amended: lookups settle as LookupOutcome says; a lookup that fails
\* leaves the cache as it was, except that a lookup called on an empty cache
\* whose store query succeeded has made the cache the list of things the
\* store answered with before it fails with not-found.
C14_LookupFailure ==
  [][LookupSettles =>
       /\ LookupOutcome
       /\ ~ret'.ok =>
            IF \E c \in Callers : RunsThen(c, ret'.op)
              THEN \E c \in Callers :
                     /\ RunsThen(c, ret'.op)
                     /\ Len(things') = Len(calls[c].rows)
                     /\ \A i \in 1..Len(things') :
                          /\ things'[i].key = calls[c].rows[i].id
                          /\ things'[i].value = calls[c].rows[i]
              ELSE things' = things]_vars

\* C14 happens: the store holds A alone, getThing(B) was called on the empty
\* cache and has failed with not-found; the cache now holds A.
C14_Witness ==
  /\ ret.op = "getThing"
  /\ ~ret.ok
  /\ ret.error = NotFoundError("B")
  /\ nEvents = 1
  /\ MapKeys(things) = {"A"}

\* C15: remove ordering.  Calling removeThing leaves the cache as it is and
\* asks the database; the database's answer leaves the cache as it is; when
\* the delete fails, the call is rejected with the database's error, no
\* thing is released and the cache is as it was; a thing is released only by
\* the callback that runs after the delete succeeded, which releases the
\* thing the cache held under the id and deletes that entry and no other.
C15_RemoveOrdering ==
  [][/\ \A c \in Callers :
          /\ Asks(c, "removeThing") => (things' = things /\ ret' = NoRet)
          /\ (calls[c].op = "removeThing" /\ calls[c].pc = "db" /\ calls'[c].pc # "db")
               => /\ things' = things
                  /\ ret'.released = <<>>
                  /\ calls'[c].pc = "idle"
                       => /\ ret'.op = "removeThing" /\ ret'.id = calls[c].id
                          /\ ~ret'.ok
                          /\ ret'.error \in {"NotFound", "StoreUnavailable"}
                          /\ db' = db
     /\ ret'.released # <<>>
          => \E c \in Callers :
               /\ RunsThen(c, "removeThing")
               /\ ret'.released = <<MapGet(things, calls[c].id)>>
               /\ MapHas(things, calls[c].id)
               /\ things' = MapDelete(things, calls[c].id)]_vars

\* C15 happens: the store has failed a removeThing of an id the cache
\* holds, and the cache still holds it.
C15_Witness ==
  /\ ret.op = "removeThing"
  /\ ~ret.ok
  /\ ret.error = "StoreUnavailable"
  /\ MapHas(things, ret.id)

\* C16: the cache never shrinks except via removeThing and clearState.  A
\* step after which an id is no longer a key of the cache is clearState, or
\* the callback of a removeThing of that id.
C16_NeverShrinks ==
  [][\A id \in MapKeys(things) \ MapKeys(things') :
       \/ ret'.op = "clearState"
       \/ \E c \in Callers : RunsThen(c, "removeThing") /\ calls[c].id = id]_vars

\* C17: read-your-writes under interleaving.  A getThing(id) called when the
\* cache holds things (it is answered at once) resolves when the last
\* createThing or removeThing of id that completed is a createThing and
\* clearState has not run, and fails with not-found when it is a removeThing,
\* whatever other calls were in flight meanwhile.
C17_ReadYourWrites ==
  [][(StartsOperation /\ ret'.op = "getThing")
       => /\ (life[ret'.id].op = "createThing" /\ ~cleared) => ret'.ok
          /\ life[ret'.id].op = "removeThing"
               => (~ret'.ok /\ ret'.error = NotFoundError(ret'.id))]_vars

\* C18: stable snapshot during broadcast.  When websockets close while
\* handleNewThing is iterating (clearState has not run and no send fails),
\* every websocket that was registered and open when it started, and is
\* still open when it ends, has been sent the thing exactly once.
C18_StableSnapshot ==
  [][(/\ sent'.newThing # <<>>
      /\ ~cleared
      /\ sent'.failing = {}
      /\ socket' # socket)
       => /\ ~sent'.threw
          /\ \A s \in Sockets :
               (socket[s] = "open" /\ socket'[s] = "open") => Count(sent'.to, s) = 1]_vars

\* C19: the release hook runs at most once.  A step runs remove() of at most
\* one thing; it is the callback of a removeThing, the thing is the one the
\* cache holds under the id, and after the step the cache holds nothing
\* under that id, so that a second removeThing of the id, in flight at the
\* same time, finds nothing to release.  (The things put in the cache later
\* are built anew, lines 43 and 103.)  A removeThing callback that changes
\* the cache releases a thing.
C19_ReleaseOnce ==
  [][/\ ret'.released # <<>>
          => /\ Len(ret'.released) = 1
             /\ \E c \in Callers :
                  /\ RunsThen(c, "removeThing")
                  /\ MapHas(things, calls[c].id)
                  /\ ret'.released[1] = MapGet(things, calls[c].id)
                  /\ ~MapHas(things', calls[c].id)
     /\ \A c \in Callers :
          (RunsThen(c, "removeThing") /\ things' # things) => ret'.released # <<>>]_vars

\* C19 happens: two removeThing calls of one id are in flight, the store has
\* answered both, and the callback of the first has released the thing.
C19_Witness ==
  /\ ret.op = "removeThing"
  /\ ret.released # <<>>
  /\ \E c \in Callers :
       calls[c].op = "removeThing" /\ calls[c].id = ret.id /\ calls[c].pc = "then"

\* C20: no phantom entries.  After every step each entry of the cache is
\* under the key that is its thing's id; and an id that the step adds to the
\* cache is the id of a row that a store list query answered with, added by
\* the callback of that query, or the id of a createThing whose store write
\* succeeded, added by the callback of that write.
C20_NoPhantom ==
  [][/\ \A i \in 1..Len(things') : things'[i].key = things'[i].value.id
     /\ \A id \in MapKeys(things') \ MapKeys(things) :
          \E c \in Callers :
            \/ /\ calls[c].op \in ReadOps
               /\ RunsThen(c, calls[c].op)
               /\ \E j \in 1..Len(calls[c].rows) : calls[c].rows[j].id = id
            \/ /\ RunsThen(c, "createThing")
               /\ calls[c].id = id]_vars

\* C20 happens: the cache holds A, which a store list query returned, and
\* B, which a createThing has just inserted after its store write.
C20_Witness ==
  /\ MapKeys(things) = {"A", "B"}
  /\ ret.op = "createThing"
  /\ ret.ok
  /\ ret.id = "B"
  /\ life["A"].op = "none"

=============================================================================
